---- MODULE Spec2Model ----
(***************************************************************************)
(* Model of the sampling heap profiler of src/src/profiler.rs:             *)
(* the session controller (HeapProfilerGuard, Profiler::start/stop), the   *)
(* hot path (Profiler::track_allocated with its thread-local ENTERED flag  *)
(* and BUFFER), the spawned flush tasks and the report (HeapReport::new).  *)
(* The crate is modelled with the measure_free feature on:                 *)
(* ProfilerBuffer::flush names profiler.freed_objects unconditionally.     *)
(***************************************************************************)
EXTENDS Integers, Sequences, FiniteSets, TLC

(* ---------------- bounds of the model ---------------- *)

\* total number of track_allocated calls (outer and nested) in a behaviour
MaxEvents == 2

\* total number of calls of HeapProfilerGuard::new in a behaviour
MaxStarts == 2

\* callers of HeapProfilerGuard::new, threads running the allocator hook
Callers == {"c1", "c2"}
Threads == {"t1", "t2"}

\* sizes handed to track_allocated (positive: allocation, negative: free)
Sizes == {100, 3145728, -3145728}

\* periods handed to HeapProfilerGuard::new
Periods == {1, 8388608}

NoOwner == "none"
\* no HeapReport returned yet; a returned one is <<r>>
NoReport == <<>>

\* the call stack seen by backtrace::trace_unsynchronized: of the thread that
\* runs the allocator hook, or of the runtime worker polling a spawned task
ThreadStack(t) == <<"hook", t>>
TaskStack == <<"tokio_task">>

VARIABLES
    HEAP_PROFILER_ENABLED,  \* AtomicBool
    HEAP_PROFILER_STATE,    \* contents of RwLock<ProfilerState>
    HEAP_PROFILER_ENTER,    \* owner of the tokio Mutex<()>, or NoOwner
    cpc,                    \* per caller: position in new / report / drop
    period,                 \* per caller: the argument of new
    report,                 \* the HeapReport most recently returned
    nStarts,                \* history: number of calls of new
    ENTERED,                \* per thread: thread_local Cell<bool>
    BUFFER,                 \* per thread: thread_local ProfilerBuffer
    tpc,                    \* per thread: position in track_allocated
    passed_buffer,          \* per thread: the clone moved into the task
    tasks,                  \* spawned flush tasks not yet run
    nextTask,               \* number of tasks spawned so far
    nCalls,                 \* history: number of track_allocated calls
    seen,                   \* history: per thread, events handled with the
                            \*   flag on since the last start
    reportSeen,             \* history: seen when report took the collector
    reportCalledAt,         \* history: nextTask when report() was called
    afterDrop,              \* history: "open" since the last Guard went away,
                            \*   "called" once track_allocated was called
                            \*   since; "none" from the next return of new
    fa, fb,                 \* two Frames buffers (FramesSpec)
    cmp,                    \* <<>> or <<fa == fb, the two hash inputs agree>>
    rep,                    \* a HeapReport whose data is resolved (PprofSpec)
    prof                    \* the Profiles returned by its pprof() calls

vars == <<HEAP_PROFILER_ENABLED, HEAP_PROFILER_STATE, HEAP_PROFILER_ENTER,
          cpc, period, report, nStarts, ENTERED, BUFFER, tpc, passed_buffer, tasks,
          nextTask, nCalls, seen, reportSeen, reportCalledAt, afterDrop,
          fa, fb, cmp, rep, prof>>

\* the variables of the profiler proper, and those of the specifications of
\* its pure parts
mainVars == <<HEAP_PROFILER_ENABLED, HEAP_PROFILER_STATE, HEAP_PROFILER_ENTER,
              cpc, period, report, nStarts, ENTERED, BUFFER, tpc, passed_buffer,
              tasks, nextTask, nCalls, seen, reportSeen, reportCalledAt, afterDrop>>
framesVars == <<fa, fb, cmp>>
pprofVars == <<rep, prof>>
pureVars == <<fa, fb, cmp, rep, prof>>

(* ---------------- collector (crate::collector) ---------------- *)

MemProfileRecord_default ==
    [alloc_objects |-> 0, alloc_bytes |-> 0, free_objects |-> 0, free_bytes |-> 0]

Collector_new == <<>>

\* Collector::record(frames, net_bytes)
Collector_record(col, frames, net) ==
    LET old == IF frames \in DOMAIN col THEN col[frames] ELSE MemProfileRecord_default
        new == IF net > 0
               THEN [old EXCEPT !.alloc_objects = @ + 1, !.alloc_bytes = @ + net]
               ELSE IF net < 0
               THEN [old EXCEPT !.free_objects = @ + 1, !.free_bytes = @ + (-net)]
               ELSE old
    IN [k \in (DOMAIN col) \cup {frames} |-> IF k = frames THEN new ELSE col[k]]

(* ---------------- ProfilerState ---------------- *)

ProfilerState_new(p) ==
    [collector |-> Collector_new,
     period |-> p,
     allocated_objects |-> 0, allocated_bytes |-> 0,
     freed_objects |-> 0, freed_bytes |-> 0,
     next_sample |-> p, next_free_sample |-> p]

ProfilerState_default == ProfilerState_new(1)

(* ---------------- ProfilerBuffer ---------------- *)

ProfilerBuffer_new ==
    [allocated_objects |-> 0, allocated_bytes |-> 0,
     freed_objects |-> 0, freed_bytes |-> 0,
     next_sample |-> 1024 * 1024, period |-> 1024 * 1024]

should_flush(b) ==
    b.allocated_bytes >= b.next_sample \/ b.freed_bytes >= b.next_sample

track(b, size) ==
    LET b1 == IF size > 0
              THEN [b EXCEPT !.allocated_objects = @ + 1, !.allocated_bytes = @ + size]
              ELSE IF size < 0
              THEN [b EXCEPT !.freed_objects = @ + 1, !.freed_bytes = @ + (-size)]
              ELSE b
    IN IF b1.allocated_bytes >= b1.next_sample \/ b1.freed_bytes >= b1.next_sample
       THEN [b1 EXCEPT !.next_sample = @ + b1.period]
       ELSE b1

reset_buffer(b) ==
    [b EXCEPT !.allocated_objects = 0, !.allocated_bytes = 0,
              !.freed_objects = 0, !.freed_bytes = 0]

\* a flush that stores the counters of the buffer in the totals instead of
\* adding them
flush_Overwrite(b, profiler, stack) ==
    LET current_net_change == b.allocated_bytes - b.freed_bytes
        p1 == [profiler EXCEPT
                 !.allocated_objects = b.allocated_objects,
                 !.allocated_bytes = b.allocated_bytes,
                 !.freed_objects = b.freed_objects,
                 !.freed_bytes = b.freed_bytes]
    IN IF current_net_change # 0
       THEN [p1 EXCEPT !.collector = Collector_record(@, stack, current_net_change)]
       ELSE p1

\* ProfilerBuffer::flush(&mut self, profiler): the new ProfilerState. self is
\* the clone owned by the task, so its next_sample update dies with the task.
\* stack is the stack trace_unsynchronized walks: that of the caller of flush.
flush(b, profiler, stack) ==
    LET current_net_change == b.allocated_bytes - b.freed_bytes
        p1 == [profiler EXCEPT
                 !.allocated_objects = @ + b.allocated_objects,
                 !.allocated_bytes = @ + b.allocated_bytes,
                 !.freed_objects = @ + b.freed_objects,
                 !.freed_bytes = @ + b.freed_bytes]
    IN IF current_net_change # 0
       THEN [p1 EXCEPT !.collector = Collector_record(@, stack, current_net_change)]
       ELSE p1

(* ---------------- history helpers ---------------- *)

NoneSeen == [t \in Threads |-> [pos |-> 0, neg |-> 0, n |-> 0]]

Note(s, t, size) ==
    [s EXCEPT ![t] = [pos |-> @.pos + (IF size > 0 THEN size ELSE 0),
                      neg |-> @.neg + (IF size < 0 THEN -size ELSE 0),
                      n |-> @.n + 1]]

(* ---------------- initial state ---------------- *)

MainInit ==
    /\ HEAP_PROFILER_ENABLED = FALSE
    /\ HEAP_PROFILER_STATE = ProfilerState_default
    /\ HEAP_PROFILER_ENTER = NoOwner
    /\ cpc = [c \in Callers |-> "idle"]
    /\ period = [c \in Callers |-> 1]
    /\ report = NoReport
    /\ nStarts = 0
    /\ ENTERED = [t \in Threads |-> FALSE]
    /\ BUFFER = [t \in Threads |-> ProfilerBuffer_new]
    /\ tpc = [t \in Threads |-> "idle"]
    /\ passed_buffer = [t \in Threads |-> ProfilerBuffer_new]
    /\ tasks = {}
    /\ nextTask = 0
    /\ nCalls = 0
    /\ seen = NoneSeen
    /\ reportSeen = NoneSeen
    /\ reportCalledAt = 0
    /\ afterDrop = "none"

\* no Frames compared, no Report serialized
FramesIdle == fa = <<>> /\ fb = <<>> /\ cmp = <<>>
PprofIdle == rep = [data |-> <<>>, period |-> 1] /\ prof = <<>>

Init == MainInit /\ FramesIdle /\ PprofIdle

hotVars == <<ENTERED, BUFFER, tpc, passed_buffer, tasks, nextTask, nCalls, seen>>
Called(a) == IF a = "none" THEN "none" ELSE "called"
ctlVars == <<HEAP_PROFILER_ENTER, cpc, period, report, nStarts, reportSeen, reportCalledAt>>

(* ---------------- Profiler ---------------- *)

\* the flag check of the hot path left out
Profiler_enabled_Always == TRUE

\* Profiler::enabled
Profiler_enabled == HEAP_PROFILER_ENABLED

\* Profiler::stop
Profiler_stop == HEAP_PROFILER_ENABLED' = FALSE

(* ---------------- HeapProfilerGuard ---------------- *)

\* a lock that is granted whoever holds it
EnterFree_Always == TRUE

\* HEAP_PROFILER_ENTER.lock() can complete
EnterFree == HEAP_PROFILER_ENTER = NoOwner

\* HeapProfilerGuard::new(p), up to its first await: lock() is awaited, so a
\* caller that finds the mutex taken waits for it (it is not refused)
New(c) ==
    /\ cpc[c] = "idle"
    /\ nStarts < MaxStarts
    /\ nStarts' = nStarts + 1
    /\ \E p \in Periods : period' = [period EXCEPT ![c] = p]
    /\ report' = NoReport
    /\ reportSeen' = NoneSeen
    /\ IF EnterFree
       THEN /\ HEAP_PROFILER_ENTER' = c
            /\ cpc' = [cpc EXCEPT ![c] = "start"]
       ELSE /\ cpc' = [cpc EXCEPT ![c] = "wait_enter"]
            /\ UNCHANGED HEAP_PROFILER_ENTER
    /\ UNCHANGED <<HEAP_PROFILER_ENABLED, HEAP_PROFILER_STATE, reportCalledAt, afterDrop>>
    /\ UNCHANGED hotVars
    /\ UNCHANGED pureVars

\* the pending lock().await of new completes
Enter(c) ==
    /\ cpc[c] = "wait_enter"
    /\ EnterFree
    /\ HEAP_PROFILER_ENTER' = c
    /\ cpc' = [cpc EXCEPT ![c] = "start"]
    /\ UNCHANGED <<HEAP_PROFILER_ENABLED, HEAP_PROFILER_STATE, period, report,
                   nStarts, reportSeen, reportCalledAt, afterDrop>>
    /\ UNCHANGED hotVars
    /\ UNCHANGED pureVars

\* Profiler::start, the write lock taken: the state is replaced and the lock
\* released
StartReplace(c) ==
    /\ cpc[c] = "start"
    /\ HEAP_PROFILER_STATE' = ProfilerState_new(period[c])
    /\ cpc' = [cpc EXCEPT ![c] = "enable"]
    /\ UNCHANGED <<HEAP_PROFILER_ENABLED, HEAP_PROFILER_ENTER, period, report,
                   nStarts, reportSeen, reportCalledAt, afterDrop>>
    /\ UNCHANGED hotVars
    /\ UNCHANGED pureVars

\* Profiler::start sets the flag; new returns Ok(Self { _guard })
StartEnable(c) ==
    /\ cpc[c] = "enable"
    /\ HEAP_PROFILER_ENABLED' = TRUE
    /\ cpc' = [cpc EXCEPT ![c] = "active"]
    /\ period' = [period EXCEPT ![c] = 1]
    /\ seen' = NoneSeen
    /\ afterDrop' = "none"
    /\ UNCHANGED <<HEAP_PROFILER_STATE, HEAP_PROFILER_ENTER, report,
                   nStarts, reportSeen, reportCalledAt>>
    /\ UNCHANGED <<ENTERED, BUFFER, tpc, passed_buffer, tasks, nextTask, nCalls>>
    /\ UNCHANGED pureVars

\* HeapProfilerGuard::report, up to its await: Profiler::stop()
ReportStop(c) ==
    /\ cpc[c] = "active"
    /\ Profiler_stop
    /\ cpc' = [cpc EXCEPT ![c] = "reporting"]
    /\ reportCalledAt' = nextTask
    /\ UNCHANGED <<HEAP_PROFILER_STATE, HEAP_PROFILER_ENTER, period, report,
                   nStarts, reportSeen, afterDrop>>
    /\ UNCHANGED hotVars
    /\ UNCHANGED pureVars

\* HeapReport::new with the write lock taken, then the end of report: self
\* is dropped (Drop::drop, then the MutexGuard)
ReportTake(c) ==
    /\ cpc[c] = "reporting"
    /\ report' = <<[data |-> HEAP_PROFILER_STATE.collector,
                    period |-> HEAP_PROFILER_STATE.period]>>
    /\ HEAP_PROFILER_STATE' = [HEAP_PROFILER_STATE EXCEPT !.collector = Collector_new]
    /\ Profiler_stop
    /\ HEAP_PROFILER_ENTER' = NoOwner
    /\ cpc' = [cpc EXCEPT ![c] = "idle"]
    /\ reportSeen' = seen
    /\ seen' = NoneSeen
    /\ reportCalledAt' = 0
    /\ afterDrop' = "open"
    /\ UNCHANGED <<period, nStarts>>
    /\ UNCHANGED <<ENTERED, BUFFER, tpc, passed_buffer, tasks, nextTask, nCalls>>
    /\ UNCHANGED pureVars

\* a Drop that releases the session mutex and leaves the flag alone
DropGuard_NoStop(c) ==
    /\ cpc[c] = "active"
    /\ HEAP_PROFILER_ENTER' = NoOwner
    /\ cpc' = [cpc EXCEPT ![c] = "idle"]
    /\ seen' = NoneSeen
    /\ afterDrop' = "open"
    /\ UNCHANGED <<HEAP_PROFILER_ENABLED, HEAP_PROFILER_STATE, period, report,
                   nStarts, reportSeen, reportCalledAt>>
    /\ UNCHANGED <<ENTERED, BUFFER, tpc, passed_buffer, tasks, nextTask, nCalls>>
    /\ UNCHANGED pureVars

\* the Guard is dropped without report: Drop::drop, then the MutexGuard
DropGuard(c) ==
    /\ cpc[c] = "active"
    /\ Profiler_stop
    /\ HEAP_PROFILER_ENTER' = NoOwner
    /\ cpc' = [cpc EXCEPT ![c] = "idle"]
    /\ seen' = NoneSeen
    /\ afterDrop' = "open"
    /\ UNCHANGED <<HEAP_PROFILER_STATE, period, report, nStarts, reportSeen,
                   reportCalledAt>>
    /\ UNCHANGED <<ENTERED, BUFFER, tpc, passed_buffer, tasks, nextTask, nCalls>>
    /\ UNCHANGED pureVars

(* ---------------- hot path ---------------- *)

\* Profiler::track_allocated(size) called by the allocator hook on thread t,
\* up to tokio::spawn (or to its return when nothing is flushed).
\* entered_guard is a copy of the Cell: the Cell itself is never set.
track_allocated(t, size) ==
    /\ tpc[t] = "idle"
    /\ nCalls < MaxEvents
    /\ nCalls' = nCalls + 1
    /\ afterDrop' = Called(afterDrop)
    /\ IF ~ENTERED[t] /\ Profiler_enabled
       THEN LET b == track(BUFFER[t], size) IN
            /\ seen' = Note(seen, t, size)
            /\ IF should_flush(b)
               THEN /\ passed_buffer' = [passed_buffer EXCEPT ![t] = b]
                    /\ BUFFER' = [BUFFER EXCEPT ![t] = reset_buffer(b)]
                    /\ tpc' = [tpc EXCEPT ![t] = "spawning"]
                    /\ UNCHANGED ENTERED
               ELSE /\ BUFFER' = [BUFFER EXCEPT ![t] = b]
                    /\ ENTERED' = [ENTERED EXCEPT ![t] = FALSE]
                    /\ UNCHANGED <<passed_buffer, tpc>>
       ELSE /\ ENTERED' = [ENTERED EXCEPT ![t] = IF ENTERED[t] THEN TRUE ELSE FALSE]
            /\ UNCHANGED <<BUFFER, passed_buffer, tpc, seen>>
    /\ UNCHANGED <<tasks, nextTask>>
    /\ UNCHANGED <<HEAP_PROFILER_ENABLED, HEAP_PROFILER_STATE>>
    /\ UNCHANGED ctlVars
    /\ UNCHANGED pureVars

\* a hot path that applies the flush itself, under the write lock of the
\* state, and returns
Spawn_FlushInline(t) ==
    /\ tpc[t] = "spawning"
    /\ HEAP_PROFILER_STATE' = flush(passed_buffer[t], HEAP_PROFILER_STATE, ThreadStack(t))
    /\ passed_buffer' = [passed_buffer EXCEPT ![t] = ProfilerBuffer_new]
    /\ tpc' = [tpc EXCEPT ![t] = "idle"]
    /\ ENTERED' = [ENTERED EXCEPT ![t] = FALSE]
    /\ UNCHANGED <<BUFFER, tasks, nextTask, nCalls, seen, afterDrop>>
    /\ UNCHANGED HEAP_PROFILER_ENABLED
    /\ UNCHANGED ctlVars
    /\ UNCHANGED pureVars

\* tokio::spawn of the flush task, then the return of track_allocated: the
\* BUFFER lock is released and ResetOnDrop clears ENTERED
Spawn(t) ==
    /\ tpc[t] = "spawning"
    /\ tasks' = tasks \cup {[id |-> nextTask, passed_buffer |-> passed_buffer[t]]}
    /\ nextTask' = nextTask + 1
    /\ passed_buffer' = [passed_buffer EXCEPT ![t] = ProfilerBuffer_new]
    /\ tpc' = [tpc EXCEPT ![t] = "idle"]
    /\ ENTERED' = [ENTERED EXCEPT ![t] = FALSE]
    /\ UNCHANGED <<BUFFER, nCalls, seen, afterDrop>>
    /\ UNCHANGED <<HEAP_PROFILER_ENABLED, HEAP_PROFILER_STATE>>
    /\ UNCHANGED ctlVars
    /\ UNCHANGED pureVars

\* an allocation made by tokio::spawn calls track_allocated again on the same
\* thread while the outer call holds the BUFFER lock. ENTERED is false, so
\* with the flag on the inner call reaches buffer.lock() on the
\* std::sync::Mutex its own thread holds: lock() does not return (it panics
\* or deadlocks).
NestedCall(t, size) ==
    /\ tpc[t] = "spawning"
    /\ nCalls < MaxEvents
    /\ nCalls' = nCalls + 1
    /\ afterDrop' = Called(afterDrop)
    /\ IF ~ENTERED[t] /\ Profiler_enabled
       THEN /\ tpc' = [tpc EXCEPT ![t] = "no_return"]
            /\ UNCHANGED ENTERED
       ELSE /\ ENTERED' = [ENTERED EXCEPT ![t] = IF ENTERED[t] THEN TRUE ELSE FALSE]
            /\ UNCHANGED tpc
    /\ UNCHANGED <<BUFFER, passed_buffer, tasks, nextTask, seen>>
    /\ UNCHANGED <<HEAP_PROFILER_ENABLED, HEAP_PROFILER_STATE>>
    /\ UNCHANGED ctlVars
    /\ UNCHANGED pureVars

\* a spawned task runs: HEAP_PROFILER_STATE.write().await, then flush
FlushTask(k) ==
    /\ k \in tasks
    /\ HEAP_PROFILER_STATE' = flush(k.passed_buffer, HEAP_PROFILER_STATE, TaskStack)
    /\ tasks' = tasks \ {k}
    /\ UNCHANGED <<ENTERED, BUFFER, tpc, passed_buffer, nextTask, nCalls, seen>>
    /\ UNCHANGED <<HEAP_PROFILER_ENABLED, afterDrop>>
    /\ UNCHANGED ctlVars
    /\ UNCHANGED pureVars

Next ==
    \/ \E c \in Callers : New(c)
    \/ \E c \in Callers : Enter(c)
    \/ \E c \in Callers : StartReplace(c)
    \/ \E c \in Callers : StartEnable(c)
    \/ \E c \in Callers : ReportStop(c)
    \/ \E c \in Callers : ReportTake(c)
    \/ \E c \in Callers : DropGuard(c)
    \/ \E t \in Threads, size \in Sizes : track_allocated(t, size)
    \/ \E t \in Threads : Spawn(t)
    \/ \E t \in Threads, size \in Sizes : NestedCall(t, size)
    \/ \E k \in tasks : FlushTask(k)

Spec == Init /\ [][Next]_vars

\* the runtime polls a caller whose await can complete: the tokio Mutex hands
\* the lock to a waiter, and the write lock of the state is never held across
\* an await. Nothing makes a caller issue new, report or drop.
FairSpec ==
    /\ Spec
    /\ WF_vars(\E c \in Callers : Enter(c))
    /\ WF_vars(\E c \in Callers : StartReplace(c))
    /\ WF_vars(\E c \in Callers : StartEnable(c))

(* ---------------- Frames ---------------- *)

\* capacity of a Frames buffer
MAX_DEPTH == 32

\* frames walked into one buffer in the model
MaxFrames == 2

\* symbol addresses of the frames walked
Addrs == {"a1", "a2", "a3"}

\* Frames::new: the initialised prefix of the array and its length (the
\* timestamp takes no part in Hash or PartialEq)
Frames_new == [frames |-> <<>>, size |-> 0]

\* Frames::push: the buffer after the push (the walk stops at MAX_DEPTH)
Frames_push(f, frame) == [frames |-> Append(f.frames, frame), size |-> f.size + 1]

\* Frames::iter with FramesIterator::next: the frames below size, in order
Frames_iter(f) == [i \in 1..f.size |-> f.frames[i]]

Min(a, b) == IF a < b THEN a ELSE b

\* PartialEq for Frames: Iterator::zip stops with the shorter iterator
Frames_eq(a, b) ==
    \A i \in 1..Min(a.size, b.size) : Frames_iter(a)[i] = Frames_iter(b)[i]

\* Hash for Frames: what is fed to the Hasher, the symbol addresses in order
Frames_hash(f) == Frames_iter(f)

FramesInit ==
    /\ MainInit
    /\ PprofIdle
    /\ fa = Frames_new
    /\ fb = Frames_new
    /\ cmp = <<>>

\* one more frame of a walk is pushed into fa
PushA(frame) ==
    /\ cmp = <<>>
    /\ fa.size < MaxFrames
    /\ fa.size < MAX_DEPTH
    /\ fa' = Frames_push(fa, frame)
    /\ UNCHANGED <<fb, cmp>>
    /\ UNCHANGED <<mainVars, pprofVars>>

\* one more frame of a walk is pushed into fb
PushB(frame) ==
    /\ cmp = <<>>
    /\ fb.size < MaxFrames
    /\ fb.size < MAX_DEPTH
    /\ fb' = Frames_push(fb, frame)
    /\ UNCHANGED <<fa, cmp>>
    /\ UNCHANGED <<mainVars, pprofVars>>

\* the Collector's map compares and hashes the two keys
Compare ==
    /\ cmp = <<>>
    /\ cmp' = <<Frames_eq(fa, fb), Frames_hash(fa) = Frames_hash(fb)>>
    /\ UNCHANGED <<fa, fb>>
    /\ UNCHANGED <<mainVars, pprofVars>>

FramesNext ==
    \/ \E frame \in Addrs : PushA(frame)
    \/ \E frame \in Addrs : PushB(frame)
    \/ Compare

FramesSpec == FramesInit /\ [][FramesNext]_vars

(* ---------------- HeapReport::pprof ---------------- *)

\* stacks of one Report in the model
MaxReportStacks == 2

\* resolved symbols (pprof::Symbol): name, sys_name, filename, lineno
sMain == [name |-> "main", sys_name |-> "main", filename |-> "m.rs", lineno |-> 10]
sWork == [name |-> "work", sys_name |-> "work", filename |-> "m.rs", lineno |-> 20]
sWorkB == [name |-> "work", sys_name |-> "work", filename |-> "w.rs", lineno |-> 30]

\* resolved stacks (pprof::Frames.frames): per frame, its symbols
PStacks == { << <<sMain>> >>,
             << <<sWork>>, <<sMain>> >>,
             << <<sWorkB, sMain>>, <<>> >> }

Recs == { [alloc_objects |-> 1, alloc_bytes |-> 100, free_objects |-> 0, free_bytes |-> 0],
          [alloc_objects |-> 2, alloc_bytes |-> 300, free_objects |-> 1, free_bytes |-> 100] }

\* the data of a HeapReport, as the sequence in which its HashMap iterates
DataInputs ==
    UNION { { d \in [1..n -> [frames : PStacks, rec : Recs]] :
                \A i, j \in 1..n : i # j => d[i].frames # d[j].frames }
            : n \in 0..MaxReportStacks }

\* MemProfileRecord::in_use_objects, in_use_bytes
in_use_objects(rec) == rec.alloc_objects - rec.free_objects
in_use_bytes(rec) == rec.alloc_bytes - rec.free_bytes

RECURSIVE Flatten(_)
Flatten(ss) == IF ss = <<>> THEN <<>> ELSE Head(ss) \o Flatten(Tail(ss))

\* the symbols of a key, in the order of `for frame ... for symbol`
KeySymbols(key) == Flatten(key)

SeqRange(q) == {q[i] : i \in 1..Len(q)}

\* dudup_str after the first loop of inner_pprof
dudup_str(data) ==
    UNION { UNION { {sy.name, sy.sys_name, sy.filename} : sy \in SeqRange(KeySymbols(e.frames)) }
            : e \in SeqRange(data) }

\* the orders in which a HashSet may iterate: it is a new HashSet, with a
\* new RandomState, in each call
IterOrders(S) ==
    { f \in [1..Cardinality(S) -> S] :
        \A i, j \in 1..Cardinality(S) : i # j => f[i] # f[j] }

\* strings.get(name): the index (from 0) the map holds, the last inserted
strings_get(string_table, name) ==
    (CHOOSE i \in 1..Len(string_table) :
        /\ string_table[i] = name
        /\ \A j \in 1..Len(string_table) : string_table[j] = name => j <= i) - 1

\* the body of `for symbol in frame`: acc carries fn_tbl, loc_tbl, functions
\* and the locs of the current sample
RECURSIVE AddSymbols(_, _, _)
AddSymbols(syms, acc, string_table) ==
    IF syms = <<>> THEN acc
    ELSE LET symbol == Head(syms)
             name == symbol.name
         IN IF name \in DOMAIN acc.functions
            THEN AddSymbols(Tail(syms),
                            [acc EXCEPT !.locs = Append(@, acc.functions[name])],
                            string_table)
            ELSE LET function_id == Len(acc.fn_tbl) + 1
                     function == [id |-> function_id,
                                  name |-> strings_get(string_table, name),
                                  system_name |-> strings_get(string_table, symbol.sys_name),
                                  filename |-> strings_get(string_table, symbol.filename)]
                     line == [function_id |-> function_id, line |-> symbol.lineno]
                     loc == [id |-> function_id, line |-> <<line>>]
                 IN AddSymbols(Tail(syms),
                               [fn_tbl |-> Append(acc.fn_tbl, function),
                                loc_tbl |-> Append(acc.loc_tbl, loc),
                                functions |-> [n \in DOMAIN acc.functions \cup {name} |->
                                                 IF n = name THEN function_id
                                                 ELSE acc.functions[n]],
                                locs |-> Append(acc.locs, function_id),
                                samples |-> acc.samples],
                               string_table)

\* the loop `for (key, rec) in data.iter()`
RECURSIVE AddSamples(_, _, _)
AddSamples(data, acc, string_table) ==
    IF data = <<>> THEN acc
    ELSE LET rec == Head(data).rec
             a1 == AddSymbols(KeySymbols(Head(data).frames),
                              [acc EXCEPT !.locs = <<>>], string_table)
             sample == [location_id |-> a1.locs,
                        value |-> <<rec.alloc_objects, rec.alloc_bytes,
                                    rec.free_objects, rec.free_bytes,
                                    in_use_objects(rec), in_use_bytes(rec)>>]
         IN AddSamples(Tail(data),
                       [a1 EXCEPT !.samples = Append(@, sample)],
                       string_table)

\* HeapReport::inner_pprof, with order the iteration order of dudup_str
inner_pprof(r, order) ==
    LET st0 == <<"">> \o order
        acc == AddSamples(r.data,
                          [fn_tbl |-> <<>>, loc_tbl |-> <<>>, functions |-> <<>>,
                           locs |-> <<>>, samples |-> <<>>],
                          st0)
        n == Len(st0)
        alloc_objects_idx == n
        count_idx == n + 1
        alloc_space_idx == n + 2
        bytes_idx == n + 3
        free_objects_idx == n + 4
        free_space_idx == n + 5
        inuse_objects_idx == n + 6
        inuse_space_idx == n + 7
        space_idx == n + 8
    IN [sample_type |-> << [ty |-> alloc_objects_idx, unit |-> count_idx],
                           [ty |-> alloc_space_idx, unit |-> bytes_idx],
                           [ty |-> free_objects_idx, unit |-> count_idx],
                           [ty |-> free_space_idx, unit |-> count_idx],
                           [ty |-> inuse_objects_idx, unit |-> count_idx],
                           [ty |-> inuse_space_idx, unit |-> bytes_idx] >>,
        default_sample_type |-> alloc_space_idx,
        sample |-> acc.samples,
        string_table |-> st0 \o <<"alloc_objects", "count", "alloc_space", "bytes",
                                  "free_objects", "free_space", "inuse_objects",
                                  "inuse_space", "space">>,
        period_type |-> [ty |-> space_idx, unit |-> bytes_idx],
        period |-> r.period,
        function |-> acc.fn_tbl,
        location |-> acc.loc_tbl,
        drop_frames |-> 0]

\* a pprof that takes the index of drop_frames after the push
pprof_IndexAfterPush(r, order) ==
    LET proto == inner_pprof(r, order)
        string_table == Append(proto.string_table, ".*::Profiler::track_allocated")
    IN [proto EXCEPT !.string_table = string_table,
                     !.drop_frames = Len(string_table)]

\* HeapReport::pprof
pprof(r, order) ==
    LET proto == inner_pprof(r, order)
        drop_frames_idx == Len(proto.string_table)
    IN [proto EXCEPT !.string_table = Append(@, ".*::Profiler::track_allocated"),
                     !.drop_frames = drop_frames_idx]

PprofInit ==
    /\ MainInit
    /\ FramesIdle
    /\ rep \in [data : DataInputs, period : Periods]
    /\ prof = <<>>

\* report.pprof() is called (at most twice on a Report in the model)
Pprof ==
    /\ Len(prof) < 2
    /\ \E order \in IterOrders(dudup_str(rep.data)) :
          prof' = Append(prof, pprof(rep, order))
    /\ UNCHANGED rep
    /\ UNCHANGED <<mainVars, framesVars>>

PprofNext == Pprof

PprofSpec == PprofInit /\ [][PprofNext]_vars

(* ---------------- properties ---------------- *)

\* a HeapProfilerGuard exists: new has returned it and it is neither dropped
\* nor consumed by a finished report
GuardExists(c) == cpc[c] \in {"active", "reporting"}

RECURSIVE SumField(_, _, _)
SumField(col, keys, f) ==
    IF keys = {} THEN 0
    ELSE LET k == CHOOSE x \in keys : TRUE
         IN col[k][f] + SumField(col, keys \ {k}, f)

Total(col, f) == SumField(col, DOMAIN col, f)

\* number of Collector::record calls that left a sample in col
Samples(col) == Total(col, "alloc_objects") + Total(col, "free_objects")

RECURSIVE SumSeen(_, _, _)
SumSeen(s, ts, f) ==
    IF ts = {} THEN 0
    ELSE LET t == CHOOSE x \in ts : TRUE
         IN s[t][f] + SumSeen(s, ts \ {t}, f)

\* C1: at most one session is Active: while one caller holds a Guard, no
\* other caller holds one
C1_AtMostOneActive ==
    \A c, d \in Callers : GuardExists(c) /\ GuardExists(d) => c = d

\* a Guard is alive while another caller has called new
C1_Witness ==
    \E c, d \in Callers : c # d /\ GuardExists(c) /\ cpc[d] = "wait_enter"

\* C2: a start attempted while another session's Guard is alive fails with
\* ConcurrentSession: it does not wait for the first session to end
C2_ConcurrentStartFails ==
    \A c, d \in Callers :
        (c # d /\ GuardExists(d)) => cpc[c] # "wait_enter"

\* C3: the re-entrance flag of a thread is true exactly while an outer
\* track_allocated call runs on it, and a nested call is a no-op: it never
\* reaches the lock of the thread-local buffer
C3_ReentranceFlag ==
    \A t \in Threads :
        /\ ENTERED[t] <=> (tpc[t] # "idle")
        /\ tpc[t] # "no_return"

\* C4: when report extracts the Collector, every flush task scheduled before
\* report() was called has been applied
C4_ReportBarrier ==
    [][\A c \in Callers :
          (cpc[c] = "reporting" /\ cpc'[c] = "idle")
              => \A k \in tasks : k.id >= reportCalledAt]_vars

\* C5: a session of period 1 in which exactly one event, +100, was handled
\* reports exactly one sample, with alloc_objects = 1 and alloc_bytes = 100
C5_PeriodOneCapturesAll ==
    (/\ report # NoReport
     /\ report[1].period = 1
     /\ SumSeen(reportSeen, Threads, "n") = 1
     /\ SumSeen(reportSeen, Threads, "pos") = 100)
        => /\ Cardinality(DOMAIN report[1].data) = 1
           /\ Total(report[1].data, "alloc_objects") = 1
           /\ Total(report[1].data, "alloc_bytes") = 100

\* C6: in a session of period P in which a single thread issued positive
\* events totalling T bytes, the Collector holds at most T \div P + 1 samples
\* and their alloc_bytes sum to at most T + P
C6_PeriodRespected ==
    \A c \in Callers, t \in Threads :
        (/\ cpc[c] = "active"
         /\ \A u \in Threads \ {t} : seen[u].n = 0
         /\ seen[t].neg = 0)
            => /\ Samples(HEAP_PROFILER_STATE.collector)
                    <= (seen[t].pos \div HEAP_PROFILER_STATE.period) + 1
               /\ Total(HEAP_PROFILER_STATE.collector, "alloc_bytes")
                    <= seen[t].pos + HEAP_PROFILER_STATE.period

\* C7: the alloc_bytes of a Report sum to at most the positive sizes handled
\* during its session, and its free_bytes to at most the negative ones
C7_SampledWithinObserved ==
    report # NoReport
        => /\ Total(report[1].data, "alloc_bytes") <= SumSeen(reportSeen, Threads, "pos")
           /\ Total(report[1].data, "free_bytes") <= SumSeen(reportSeen, Threads, "neg")

\* C8 as stated: the enable flag is true if and only if a Guard exists, also
\* while report() is running
C8_FlagIffGuard ==
    HEAP_PROFILER_ENABLED <=> (\E c \in Callers : GuardExists(c))

\* C8 as amended: the enable flag is true if and only if a Guard exists on
\* which report() has not been called
C8_FlagIffGuardNotReporting ==
    HEAP_PROFILER_ENABLED <=> (\E c \in Callers : cpc[c] = "active")

\* report() is running on a Guard: the flag is already false
C8_Witness ==
    \E c \in Callers : cpc[c] = "reporting" /\ ~HEAP_PROFILER_ENABLED

\* C9: a track_allocated call that begins while no Guard exists changes no
\* thread's accumulator, schedules no flush task and changes no Collector
C9_NoEffectWithoutGuard ==
    [][((\A c \in Callers : ~GuardExists(c)) /\ nCalls' # nCalls)
          => UNCHANGED <<BUFFER, tasks, HEAP_PROFILER_STATE>>]_vars

\* track_allocated was called after a Guard went away and before the next
\* start completed, on a thread whose accumulator holds counters
C9_Witness ==
    /\ afterDrop = "called"
    /\ \E t \in Threads : BUFFER[t].allocated_objects > 0

\* under FairSpec: once no Guard exists, a pending start leads to a Guard
\* with the flag on
PendingStartReturns ==
    ((\E c \in Callers : cpc[c] \in {"wait_enter", "start", "enable"})
        /\ (\A c \in Callers : ~GuardExists(c)))
    ~> (\E c \in Callers : cpc[c] = "active" /\ HEAP_PROFILER_ENABLED)

\* C10: when new returns the Guard of a session, the enable flag is true and
\* the Profiler State is the fresh empty state of the new period
C10_NewGuardFreshState ==
    [][\A c \in Callers :
          (cpc[c] = "enable" /\ cpc'[c] = "active")
              => /\ HEAP_PROFILER_ENABLED'
                 /\ HEAP_PROFILER_STATE' = ProfilerState_new(period[c])]_vars

\* index i (from 0) is within the string table of Profile p
InStrings(p, i) == 0 <= i /\ i < Len(p.string_table)

\* the string at index i (from 0) of the string table of Profile p
StringAt(p, i) == p.string_table[i + 1]

WellFormed(p) ==
    /\ p.string_table[1] = ""
    /\ \A i \in 1..Len(p.sample) : Len(p.sample[i].value) = Len(p.sample_type)
    /\ \A i \in 1..Len(p.function) :
          /\ InStrings(p, p.function[i].name)
          /\ InStrings(p, p.function[i].system_name)
          /\ InStrings(p, p.function[i].filename)
          /\ p.function[i].id = i
    /\ \A i \in 1..Len(p.sample_type) :
          InStrings(p, p.sample_type[i].ty) /\ InStrings(p, p.sample_type[i].unit)
    /\ InStrings(p, p.period_type.ty) /\ InStrings(p, p.period_type.unit)
    /\ InStrings(p, p.default_sample_type)
    /\ InStrings(p, p.drop_frames)
    /\ \A i \in 1..Len(p.sample) : \A j \in 1..Len(p.sample[i].location_id) :
          \E l \in 1..Len(p.location) : p.location[l].id = p.sample[i].location_id[j]
    /\ \A l \in 1..Len(p.location) : \A j \in 1..Len(p.location[l].line) :
          \E f \in 1..Len(p.function) :
              p.function[f].id = p.location[l].line[j].function_id

\* C11: every Profile built by pprof() is well formed: string 0 is empty,
\* every value vector is as long as sample_type, every string index,
\* location id and function id is in range, function ids are 1..n
C11_ProfileWellFormed ==
    \A i \in 1..Len(prof) : WellFormed(prof[i])

\* a Profile of two stacks that share a function was built
C11_Witness ==
    \E i \in 1..Len(prof) :
        /\ Len(prof[i].sample) = 2
        /\ Len(prof[i].function) = 2
        /\ Len(prof[i].sample[2].location_id) >= 2

\* C12: two pprof() calls on the same Report return identical Profiles
C12_PprofDeterministic ==
    Len(prof) = 2 => prof[1] = prof[2]

\* the kind of value each sample_type names, and the unit it must carry
UnitOf(ty) ==
    IF ty \in {"alloc_objects", "free_objects", "inuse_objects"} THEN "count" ELSE "bytes"

\* C13: sample_type is in the order of the value vector, and each entry's
\* unit is `count` for an object count and `bytes` for a byte size
C13_SampleTypeUnits ==
    \A i \in 1..Len(prof) :
        LET p == prof[i]
            types == [j \in 1..Len(p.sample_type) |-> StringAt(p, p.sample_type[j].ty)]
        IN /\ types = <<"alloc_objects", "alloc_space", "free_objects",
                        "free_space", "inuse_objects", "inuse_space">>
           /\ \A j \in 1..Len(p.sample_type) :
                 StringAt(p, p.sample_type[j].unit) = UnitOf(types[j])

\* the stacks of the threads that call track_allocated
ThreadStacks == {ThreadStack(t) : t \in Threads}

\* C14: every sample of the Collector is keyed by the stack of the thread
\* whose event crossed the threshold, not by the stack of the task that
\* applies the flush
C14_KeyedByAllocatingStack ==
    \A key \in DOMAIN HEAP_PROFILER_STATE.collector : key \in ThreadStacks

\* C15: during a session every thread's accumulator has the period given
\* to start
C15_BufferPeriodIsSessionPeriod ==
    \A c \in Callers :
        cpc[c] = "active"
            => \A t \in Threads : BUFFER[t].period = HEAP_PROFILER_STATE.period

Abs(x) == IF x < 0 THEN -x ELSE x

\* the next_sample the thread is to have after a flush of net bytes that was
\* triggered at threshold thr
NextSampleAfterFlush(net, thr, p) ==
    IF Abs(net) >= thr THEN Abs(net) + p ELSE thr + p

\* thread t flushes in this step: the clone is taken and the buffer reset
Flushes(t) == tpc[t] = "idle" /\ tpc'[t] = "spawning"

\* C16: after a flush on a thread its next_sample is |net| + period if
\* |net| >= t and t + period otherwise, t being the threshold when the flush
\* was triggered (the one the event met, or the one should_flush read), and
\* its four counters are zero
C16_NextSampleAfterFlush ==
    [][\A t \in Threads :
          Flushes(t) =>
              LET net == passed_buffer'[t].allocated_bytes - passed_buffer'[t].freed_bytes
                  p == BUFFER[t].period
              IN /\ BUFFER'[t].next_sample
                        \in {NextSampleAfterFlush(net, BUFFER[t].next_sample, p),
                             NextSampleAfterFlush(net, passed_buffer'[t].next_sample, p)}
                 /\ BUFFER'[t].allocated_objects = 0
                 /\ BUFFER'[t].allocated_bytes = 0
                 /\ BUFFER'[t].freed_objects = 0
                 /\ BUFFER'[t].freed_bytes = 0]_vars

\* a step of the hot path: track_allocated is called, or goes on to its return
HotPathStep == nCalls' # nCalls \/ tpc' # tpc

\* a step of thread t in the hot path
HotPathStepOf(t) == tpc'[t] # tpc[t] \/ BUFFER'[t] # BUFFER[t] \/ ENTERED'[t] # ENTERED[t]

\* a flush task is run to its end
FlushTaskStep == \E k \in tasks : tasks' = tasks \ {k}

\* start replaces the state, or report moves the collector out
StartOrReportStep ==
    \E c \in Callers :
        \/ cpc[c] = "start" /\ cpc'[c] = "enable"
        \/ cpc[c] = "reporting" /\ cpc'[c] = "idle"

\* C17: a step of track_allocated neither takes nor frees the session mutex
\* or the state lock, writes no shared state but the set of scheduled tasks,
\* touches only its own thread's accumulator, and its return from the
\* spawn waits for nothing; the state (Collector and totals) is changed only
\* by a flush task, by start and by report
C17_HotPathHandsOff ==
    /\ [][/\ HotPathStep
              => /\ UNCHANGED <<HEAP_PROFILER_ENTER, HEAP_PROFILER_STATE,
                                HEAP_PROFILER_ENABLED, cpc, report>>
                 /\ tasks \subseteq tasks'
          /\ \A t \in Threads :
                HotPathStepOf(t)
                    => \A u \in Threads \ {t} :
                          UNCHANGED <<BUFFER[u], tpc[u], ENTERED[u], passed_buffer[u]>>
          /\ HEAP_PROFILER_STATE' # HEAP_PROFILER_STATE
              => ~HotPathStep /\ (FlushTaskStep \/ StartOrReportStep)]_vars
    /\ [](\A t \in Threads : tpc[t] = "spawning" => ENABLED Spawn(t))

\* a thread has crossed the threshold and is scheduling its flush while a
\* session holds the mutex and an earlier flush task is still pending
C17_Witness ==
    /\ HEAP_PROFILER_ENTER # NoOwner
    /\ tasks # {}
    /\ \E t \in Threads : tpc[t] = "spawning"

\* caller c waits for the session mutex; thread t waits for the lock of its
\* thread-local buffer, which the outer call on t holds until it returns
WaitsForEnter(c) == cpc[c] = "wait_enter"
WaitsForBuffer(t) == tpc[t] = "no_return"
HoldsBuffer(t) == tpc[t] \in {"spawning", "no_return"}

\* C18: no caller, thread or task waits in a cycle: a waiter for the session
\* mutex is not its owner, and a call that waits for a thread-local buffer
\* lock is not on the thread whose pending call holds it (the state lock is
\* never held while waiting), so every scheduled flush and every start and
\* report can complete
C18_NoCyclicWait ==
    /\ \A c \in Callers : WaitsForEnter(c) => HEAP_PROFILER_ENTER # c
    /\ \A t \in Threads : WaitsForBuffer(t) => ~HoldsBuffer(t)

\* the stacks a flush may record under: that of the task, or of a thread
FlushStacks == {TaskStack} \cup ThreadStacks

C20_EqIsSequenceEquality ==
    cmp # <<>>
        => /\ cmp[1] <=> (Frames_iter(fa) = Frames_iter(fb))
           /\ cmp[1] => cmp[2]

\* C21: while a session has its Guard, the totals of the Profiler State and
\* the counters of its Collector hold nothing but events the hot path
\* handled during that session: no flush scheduled in an earlier session and
\* no counter left in a thread's accumulator by one is added to them
C21_SessionIsolation ==
    \A c \in Callers :
        GuardExists(c)
            => /\ HEAP_PROFILER_STATE.allocated_bytes <= SumSeen(seen, Threads, "pos")
               /\ HEAP_PROFILER_STATE.freed_bytes <= SumSeen(seen, Threads, "neg")
               /\ HEAP_PROFILER_STATE.allocated_objects + HEAP_PROFILER_STATE.freed_objects
                      <= SumSeen(seen, Threads, "n")
               /\ Total(HEAP_PROFILER_STATE.collector, "alloc_bytes")
                      <= SumSeen(seen, Threads, "pos")
               /\ Total(HEAP_PROFILER_STATE.collector, "free_bytes")
                      <= SumSeen(seen, Threads, "neg")

TypeOK ==
    /\ HEAP_PROFILER_ENABLED \in BOOLEAN
    /\ HEAP_PROFILER_ENTER \in Callers \cup {NoOwner}
    /\ \A c \in Callers : cpc[c] \in {"idle", "wait_enter", "start", "enable", "active", "reporting"}
    /\ \A t \in Threads : tpc[t] \in {"idle", "spawning", "no_return"}
====
